---- MODULE Spec2Model ----
(***************************************************************************)
(* Model of the digital-twin RAG pipeline of src/digitaltwin_rag.py (both  *)
(* program texts the file holds: lines 1-299 and lines 300-519) and of the *)
(* embedding helper of src/embed_simple.py.                                *)
(*                                                                         *)
(* Representation of Python values:                                        *)
(*   - a value that may be None is a set with at most one element: {} is   *)
(*     None and {v} is the value v;                                        *)
(*   - a str is a sequence of fragments (TLA+ strings); a literal of the   *)
(*     source is one fragment, f-strings and join are concatenation;       *)
(*   - a dict is a function from its keys;                                 *)
(*   - an embedding vector is the record of how many native values and how *)
(*     many padding zeros it holds, in that order;                         *)
(*   - an operation that can raise yields a record with an exc field.      *)
(***************************************************************************)
EXTENDS Integers, Sequences, FiniteSets, TLC

----------------------------------------------------------------------------
(* Python values *)

None == {}

Some(v) == {v}

TheVal(o) == CHOOSE v \in o : TRUE

\* truthiness of a str-or-None value: None and '' are falsy
StrTruthy(o) == o # None /\ TheVal(o) # <<>>

\* truthiness of a number-or-None value: None and 0 are falsy
NumTruthy(o) == o # None /\ TheVal(o) # 0

\* Python's `a or b` on str-or-None operands
OrStr(a, b) == IF StrTruthy(a) THEN a ELSE b

\* dict.get(key) and dict.get(key, default) on a dict of str-or-None values
DictGet(d, k) == IF k \in DOMAIN d THEN d[k] ELSE None

DictGetDefault(d, k, dflt) == IF k \in DOMAIN d THEN d[k] ELSE dflt

EmptyDict == [k \in {} |-> None]

Whitespace == {" ", "\n", "\n\n", "\t"}

RECURSIVE LStrip(_)
LStrip(s) == IF s # <<>> /\ Head(s) \in Whitespace THEN LStrip(Tail(s)) ELSE s

RECURSIVE RStrip(_)
RStrip(s) ==
    IF s # <<>> /\ s[Len(s)] \in Whitespace
    THEN RStrip(SubSeq(s, 1, Len(s) - 1))
    ELSE s

\* str.strip()
Strip(s) == RStrip(LStrip(s))

\* sep.join(parts)
RECURSIVE Join(_, _)
Join(sep, parts) ==
    IF parts = <<>> THEN <<>>
    ELSE IF Len(parts) = 1 THEN parts[1]
    ELSE parts[1] \o sep \o Join(sep, Tail(parts))

\* needle in haystack
Contains(haystack, needle) ==
    \E i \in 0..(Len(haystack) - Len(needle)) :
        SubSeq(haystack, i + 1, i + Len(needle)) = needle

----------------------------------------------------------------------------
(* Embedding: digitaltwin_rag.py lines 46-62 and 156-174, embed_simple.py 58-64 *)

EmbedDim == 1536

\* native output widths of the embedding model that may get loaded
Widths == {384, 768, 1536, 2048}

\* outcome of the SentenceTransformer(...) constructor: failure, or a model
LoadOutcomes ==
    {[ok |-> FALSE, width |-> 0]} \cup {[ok |-> TRUE, width |-> w] : w \in Widths}

VecLen(v) == v.native + v.zeros

\* model.encode(text): the native vector of the loaded model
Encode(m, text) == [of |-> text, native |-> m.width, zeros |-> 0]

\* get_embedding_model(): model is the global _embedding_model, cls tells
\* whether the SentenceTransformer class was imported, load is what the
\* constructor does if it is called.
get_embedding_model(model, cls, load) ==
    IF model = None
    THEN IF ~cls
         THEN [ret |-> None, model |-> None, ctor |-> 0]
         ELSE IF load.ok
              THEN [ret   |-> Some([width |-> load.width]),
                    model |-> Some([width |-> load.width]),
                    ctor  |-> 1]
              ELSE [ret |-> None, model |-> None, ctor |-> 1]
    ELSE [ret |-> model, model |-> model, ctor |-> 0]

\* lines 166-171: pad when shorter than 1536, nothing else
PadTo1536(emb) ==
    IF VecLen(emb) < EmbedDim
    THEN [emb EXCEPT !.zeros = emb.zeros + (EmbedDim - VecLen(emb))]
    ELSE emb

\* embed_text(text); encOk is whether model.encode returns (or raises)
embed_text(model, cls, load, encOk, text) ==
    LET g == get_embedding_model(model, cls, load) IN
    IF g.ret = None
    THEN [ret |-> None, model |-> g.model, ctor |-> g.ctor, calls |-> <<>>]
    ELSE IF ~encOk
         THEN [ret |-> None, model |-> g.model, ctor |-> g.ctor,
               calls |-> <<"encode">>]
         ELSE [ret   |-> Some(PadTo1536(Encode(TheVal(g.ret), text))),
               model |-> g.model, ctor |-> g.ctor, calls |-> <<"encode">>]

\* emb[:1536]
Truncate(emb) ==
    IF emb.native >= EmbedDim
    THEN [emb EXCEPT !.native = EmbedDim, !.zeros = 0]
    ELSE [emb EXCEPT !.zeros = IF VecLen(emb) > EmbedDim
                                THEN EmbedDim - emb.native
                                ELSE emb.zeros]

\* embed_simple.py create_embedding(text) with the script's module-level model
create_embedding(m, text) == Truncate(PadTo1536(Encode(m, text)))

----------------------------------------------------------------------------
(* The vector store's answer to index.query *)

\* the metadata value of a hit: a dict, None, or a value of another type
\* (a str, say), which has no .get
MetaDict(m) == [kind |-> "dict", m |-> m]

MetaNone == [kind |-> "none", m |-> EmptyDict]

MetaJunk == [kind |-> "junk", m |-> EmptyDict]

\* one element of the hit list: a hit carrying score and metadata, or a
\* value of another type (kind "junk": a str, an int, None)
Hit(score, metadata) == [kind |-> "ok", score |-> score, metadata |-> metadata]

JunkHit == [kind |-> "junk", score |-> None, metadata |-> MetaNone]

\* the four shapes the hits can be delivered in
GoodShapes == {"results", "matches", "list", "objects"}

\* "none": the response is None; "noniter": a dict whose results entry is a
\* number
Shapes == GoodShapes \cup {"none", "noniter"}

Response(shape, hits) == [exc |-> FALSE, shape |-> shape, hits |-> hits]

\* index.query raised
QueryRaises == [exc |-> TRUE, shape |-> "none", hits |-> <<>>]

IsDictResponse(res) == res.shape \in {"results", "matches", "noniter"}

IsListResponse(res) == res.shape \in {"list", "objects"}

\* how a hit of the response is accessed: attributes, or mapping keys
ElemStyle(res) == IF res.shape = "objects" THEN "attr" ELSE "dict"

----------------------------------------------------------------------------
(* query_vectors, digitaltwin_rag.py lines 176-207 *)

TopKDefault == 3

\* lines 193-196: the list to iterate; a set with one list, or {} when the
\* value found is not iterable
ResponseHits(res) ==
    IF IsDictResponse(res)
    THEN IF res.shape = "noniter"
         THEN None
         ELSE LET results == IF res.shape = "results" THEN res.hits ELSE <<>>
                  matches == IF res.shape = "matches" THEN res.hits ELSE <<>>
              IN  Some(IF results # <<>> THEN results
                       ELSE IF matches # <<>> THEN matches ELSE <<>>)
    ELSE IF IsListResponse(res) THEN Some(res.hits) ELSE Some(<<>>)

\* line 200
HitScore(style, h) ==
    LET attr == IF style = "attr" /\ h.kind = "ok" THEN h.score ELSE None
        key  == IF style = "dict" /\ h.kind = "ok" THEN h.score ELSE None
    IN  IF NumTruthy(attr) THEN attr ELSE key

\* line 201: the value bound to metadata
HitMetadata(style, h) ==
    IF h.kind = "ok" /\ h.metadata.kind = "junk" THEN MetaJunk
    ELSE IF h.kind = "ok" /\ h.metadata.kind = "dict" /\ DOMAIN h.metadata.m # {}
         THEN h.metadata
         ELSE MetaDict(EmptyDict)

\* line 202
HitText(m) ==
    OrStr(DictGet(m, "content"),
          OrStr(DictGet(m, "text"), DictGetDefault(m, "title", Some(<<>>))))

\* lines 198-204; metadata.get raises on a metadata that is no dict
NormalizeHits(style, hits) ==
    IF \E i \in 1..Len(hits) : HitMetadata(style, hits[i]).kind = "junk"
    THEN [exc |-> TRUE, val |-> <<>>]
    ELSE [exc |-> FALSE,
          val |-> [i \in 1..Len(hits) |->
                     LET md == HitMetadata(style, hits[i]).m IN
                     [score    |-> HitScore(style, hits[i]),
                      metadata |-> md,
                      text     |-> HitText(md)]]]

\* lines 188-204, the body of the try
QueryAndNormalize(res) ==
    IF res.exc THEN [exc |-> TRUE, val |-> <<>>]
    ELSE IF ResponseHits(res) = None THEN [exc |-> TRUE, val |-> <<>>]
    ELSE NormalizeHits(ElemStyle(res), TheVal(ResponseHits(res)))

\* lines 187, 205-207: any exception of the body becomes the empty list
QueryTry(body) ==
    IF body.exc THEN [raised |-> FALSE, ret |-> <<>>]
    ELSE [raised |-> FALSE, ret |-> body.val]

\* line 189 issued again after a failure
QueryCallsRetry(res) == IF res.exc THEN <<"query", "query">> ELSE <<"query">>

\* line 189: index.query is called once, whatever it does
QueryCalls(res) == <<"query">>

\* query_vectors(index, query_text, top_k); env holds what the collaborators
\* do when called: cls, load, encOk (the embedder) and res (index.query)
query_vectors(index, query_text, top_k, model, env) ==
    IF index = None
    THEN [ret |-> <<>>, raised |-> FALSE, model |-> model, ctor |-> 0,
          calls |-> <<>>, query_args |-> None]
    ELSE LET e == embed_text(model, env.cls, env.load, env.encOk, query_text) IN
         IF e.ret = None
         THEN [ret |-> <<>>, raised |-> FALSE, model |-> e.model, ctor |-> e.ctor,
               calls |-> e.calls, query_args |-> None]
         ELSE LET t == QueryTry(QueryAndNormalize(env.res)) IN
              [ret |-> t.ret, raised |-> t.raised, model |-> e.model,
               ctor |-> e.ctor, calls |-> e.calls \o QueryCalls(env.res),
               query_args |-> Some([vector |-> TheVal(e.ret), top_k |-> top_k])]

----------------------------------------------------------------------------
(* generate_response_with_groq, digitaltwin_rag.py lines 209-232 *)

\* the fragment that stands for the cross mark U+274C opening every error
\* string of the first program text
ErrorMarker == "[X]"

GroqNotInitialized == <<ErrorMarker, " Groq client not initialized">>

ErrorGenerating(msg) == <<ErrorMarker, " Error generating response: ">> \o msg

\* What client.chat.completions.create does: it raises (msg is the text of
\* the exception), or returns a completion of one of three kinds:
\*   "object" has the attribute choices, a list of choices whose
\*            message.content is a str or None;
\*   "dict"   is a mapping that may hold the key choices, a list of
\*            mappings {message: {content: ...}};
\*   "other"  is anything else, str is what str() makes of it.
CreateRaises(msg) ==
    [exc |-> TRUE, msg |-> msg, kind |-> "other", choices |-> None, str |-> <<>>]

CompletionObject(contents) ==
    [exc |-> FALSE, msg |-> <<>>, kind |-> "object", choices |-> Some(contents),
     str |-> <<>>]

CompletionDict(choices) ==
    [exc |-> FALSE, msg |-> <<>>, kind |-> "dict", choices |-> choices, str |-> <<>>]

CompletionOther(str) ==
    [exc |-> FALSE, msg |-> <<>>, kind |-> "other", choices |-> None, str |-> str]

IndexError == <<"list index out of range">>

AttributeErrorStrip == <<"'NoneType' object has no attribute 'strip'">>

\* lines 224-229 without the elif/else branches: choices is read as an
\* attribute of whatever came back
ExtractTextObjectOnly(completion) ==
    IF completion.kind # "object"
    THEN [exc |-> TRUE, msg |-> <<"object has no attribute 'choices'">>,
          val |-> None]
    ELSE IF TheVal(completion.choices) = <<>>
         THEN [exc |-> TRUE, msg |-> IndexError, val |-> None]
         ELSE [exc |-> FALSE, msg |-> <<>>, val |-> TheVal(completion.choices)[1]]

\* lines 224-229
ExtractText(completion) ==
    IF completion.kind = "object"
    THEN IF TheVal(completion.choices) = <<>>
         THEN [exc |-> TRUE, msg |-> IndexError, val |-> None]
         ELSE [exc |-> FALSE, msg |-> <<>>, val |-> TheVal(completion.choices)[1]]
    ELSE IF completion.kind = "dict"
    THEN IF completion.choices = None
         THEN [exc |-> FALSE, msg |-> <<>>, val |-> Some(<<>>)]
         ELSE IF TheVal(completion.choices) = <<>>
              THEN [exc |-> TRUE, msg |-> IndexError, val |-> None]
              ELSE [exc |-> FALSE, msg |-> <<>>,
                    val |-> TheVal(completion.choices)[1]]
    ELSE [exc |-> FALSE, msg |-> <<>>, val |-> Some(completion.str)]

\* lines 214-230, the body of the try
CreateAndExtract(completion) ==
    IF completion.exc THEN [exc |-> TRUE, msg |-> completion.msg, val |-> <<>>]
    ELSE LET t == ExtractText(completion) IN
         IF t.exc THEN [exc |-> TRUE, msg |-> t.msg, val |-> <<>>]
         ELSE IF t.val = None
              THEN [exc |-> TRUE, msg |-> AttributeErrorStrip, val |-> <<>>]
              ELSE [exc |-> FALSE, msg |-> <<>>, val |-> Strip(TheVal(t.val))]

\* lines 213-232 without the except clause: the exception leaves the function
GenerateTryReraise(body) ==
    IF body.exc THEN [raised |-> TRUE, ret |-> body.msg]
    ELSE [raised |-> FALSE, ret |-> body.val]

\* lines 213, 231-232: any exception of the body becomes an error string
GenerateTry(body) ==
    IF body.exc THEN [raised |-> FALSE, ret |-> ErrorGenerating(body.msg)]
    ELSE [raised |-> FALSE, ret |-> body.val]

\* generate_response_with_groq(client, prompt); completion is what the
\* backend does with the request
generate_response_with_groq(client, prompt, completion) ==
    IF client = None
    THEN [ret |-> GroqNotInitialized, raised |-> FALSE, calls |-> <<>>,
          prompt |-> None]
    ELSE LET t == GenerateTry(CreateAndExtract(completion)) IN
         [ret |-> t.ret, raised |-> t.raised, calls |-> <<"create">>,
          prompt |-> Some(prompt)]

----------------------------------------------------------------------------
(* rag_query, digitaltwin_rag.py lines 234-270 *)

PleaseProvide == <<"Please provide a question.">>

NotFound == <<"I couldn't find relevant information in the digital twin.">>

\* line 240 with the test left out
NoHitsNever(hits) == FALSE

\* line 240: `if not hits`
NoHits(hits) == hits = <<>>

\* line 249
ResolvedText(h) ==
    TheVal(OrStr(h.text,
             OrStr(DictGet(h.metadata, "content"),
               OrStr(DictGet(h.metadata, "text"), Some(<<>>)))))

\* line 250
ResolvedTitle(h) ==
    TheVal(OrStr(DictGet(h.metadata, "title"),
             OrStr(DictGet(h.metadata, "section"), Some(<<>>))))

\* lines 252-255: the entry of contexts made for one normalized hit
ContextLine(h) ==
    IF ResolvedTitle(h) # <<>>
    THEN ResolvedTitle(h) \o <<": ">> \o ResolvedText(h)
    ELSE ResolvedText(h)

\* lines 244-255
BuildContexts(hits) == [i \in 1..Len(hits) |-> ContextLine(hits[i])]

\* lines 259-266
BuildPrompt(context_block, question) ==
    <<"Based on the information below from my profile, answer the question in first person.\n\nContext:\n">>
    \o context_block
    \o <<"\n\nQuestion: ">>
    \o question
    \o <<"\n\nIf the context does not contain enough detail, say you don't have enough information. Keep the answer concise and professional.">>

\* rag_query(index, groq_client, question, top_k=3)
rag_query(index, groq_client, question, model, env) ==
    IF question = <<>>
    THEN [ret |-> PleaseProvide, raised |-> FALSE, model |-> model, ctor |-> 0,
          calls |-> <<>>, query_args |-> None, hits |-> <<>>,
          contexts |-> <<>>, prompt |-> None]
    ELSE LET q == query_vectors(index, question, TopKDefault, model, env) IN
         IF q.raised \/ NoHits(q.ret)
         THEN [ret |-> NotFound, raised |-> q.raised, model |-> q.model,
               ctor |-> q.ctor, calls |-> q.calls, query_args |-> q.query_args,
               hits |-> q.ret, contexts |-> <<>>, prompt |-> None]
         ELSE LET contexts == BuildContexts(q.ret)
                  prompt   == BuildPrompt(Join(<<"\n\n">>, contexts), question)
                  g == generate_response_with_groq(groq_client, prompt,
                                                   env.completion)
              IN  [ret |-> g.ret, raised |-> g.raised, model |-> q.model,
                   ctor |-> q.ctor, calls |-> q.calls \o g.calls,
                   query_args |-> q.query_args, hits |-> q.ret,
                   contexts |-> contexts, prompt |-> g.prompt]

----------------------------------------------------------------------------
(* The second program text of digitaltwin_rag.py, lines 300-519.  Its      *)
(* definitions carry the suffix _2 here; loading the whole file rebinds    *)
(* the names to them.                                                      *)

\* query_vectors, lines 395-406: the raw response, or None
query_vectors_2(index, query_text, top_k, res) ==
    IF index = None
    THEN [ret |-> None, calls |-> <<>>, query_args |-> None]
    ELSE [ret |-> IF res.exc \/ res.shape = "none" THEN None ELSE Some(res),
          calls |-> <<"query">>,
          query_args |-> Some([data |-> query_text, top_k |-> top_k])]

ErrorGenerating_2(msg) == <<" Error generating response: ">> \o msg

\* generate_response_with_groq, lines 408-430
generate_response_with_groq_2(client, prompt, completion) ==
    IF client = None
    THEN [ret |-> ErrorGenerating_2(<<"'NoneType' object has no attribute 'chat'">>),
          raised |-> FALSE, calls |-> <<>>, prompt |-> None]
    ELSE LET body ==
               IF completion.exc THEN [exc |-> TRUE, msg |-> completion.msg]
               ELSE IF completion.kind # "object"
               THEN [exc |-> TRUE, msg |-> <<"object has no attribute 'choices'">>]
               ELSE IF TheVal(completion.choices) = <<>>
               THEN [exc |-> TRUE, msg |-> IndexError]
               ELSE IF TheVal(completion.choices)[1] = None
               THEN [exc |-> TRUE, msg |-> AttributeErrorStrip]
               ELSE [exc |-> FALSE, msg |-> <<>>]
         IN  [ret |-> IF body.exc
                      THEN ErrorGenerating_2(body.msg)
                      ELSE Strip(TheVal(TheVal(completion.choices)[1])),
              raised |-> FALSE, calls |-> <<"create">>, prompt |-> Some(prompt)]

NoSpecificInformation == <<"I don't have specific information about that topic.">>

CouldNotExtract == <<"I found some information but couldn't extract details.">>

ErrorDuringQuery(msg) == <<" Error during query: ">> \o msg

\* what an f-string makes of a str-or-None value
Format(o) == IF o = None THEN <<"None">> ELSE TheVal(o)

\* lines 444-453: the loop over the raw results; it raises on an element
\* without the attribute metadata, on a metadata without get and on
\* formatting a score that is None
RECURSIVE ExtractDocs(_, _, _)
ExtractDocs(style, hits, top_docs) ==
    IF hits = <<>> THEN [exc |-> FALSE, msg |-> <<>>, val |-> top_docs]
    ELSE LET h == Head(hits) IN
         IF style # "attr" \/ h.kind # "ok"
         THEN [exc |-> TRUE, msg |-> <<"object has no attribute 'metadata'">>,
               val |-> <<>>]
         ELSE IF h.metadata.kind = "junk"
         THEN [exc |-> TRUE, msg |-> <<"object has no attribute 'get'">>,
               val |-> <<>>]
         ELSE IF h.score = None
         THEN [exc |-> TRUE,
               msg |-> <<"unsupported format string passed to NoneType.__format__">>,
               val |-> <<>>]
         ELSE LET metadata == IF h.metadata.kind = "dict"
                              THEN h.metadata.m ELSE EmptyDict
                  title   == DictGetDefault(metadata, "title", Some(<<"Information">>))
                  content == DictGetDefault(metadata, "content", Some(<<>>))
              IN  ExtractDocs(style, Tail(hits),
                      IF StrTruthy(content)
                      THEN Append(top_docs,
                                  Format(title) \o <<": ">> \o TheVal(content))
                      ELSE top_docs)

\* lines 462-470
BuildPrompt_2(context, question) ==
    <<"Based on the following information about yourself, answer the question.\nSpeak in first person as if you are describing your own background.\n\nYour Information:\n">>
    \o context
    \o <<"\n\nQuestion: ">>
    \o question
    \o <<"\n\nProvide a helpful, professional response:">>

\* rag_query, lines 432-476
rag_query_2(index, groq_client, question, env) ==
    LET q == query_vectors_2(index, question, TopKDefault, env.res)
        early(answer) ==
            [ret |-> answer, raised |-> FALSE, calls |-> q.calls,
             query_args |-> q.query_args, contexts |-> <<>>, prompt |-> None]
    IN  IF q.ret = None THEN early(NoSpecificInformation)
        ELSE LET results == TheVal(q.ret) IN
             IF IsListResponse(results) /\ results.hits = <<>>
             THEN early(NoSpecificInformation)
             ELSE IF IsDictResponse(results)
             THEN early(ErrorDuringQuery(<<"'str' object has no attribute 'metadata'">>))
             ELSE LET d == ExtractDocs(ElemStyle(results), results.hits, <<>>) IN
                  IF d.exc THEN early(ErrorDuringQuery(d.msg))
                  ELSE IF d.val = <<>> THEN early(CouldNotExtract)
                  ELSE LET prompt == BuildPrompt_2(Join(<<"\n\n">>, d.val), question)
                           g == generate_response_with_groq_2(groq_client, prompt,
                                                              env.completion)
                       IN  [ret |-> g.ret, raised |-> g.raised,
                            calls |-> q.calls \o g.calls,
                            query_args |-> q.query_args, contexts |-> d.val,
                            prompt |-> g.prompt]

----------------------------------------------------------------------------
(* setup_vector_database, digitaltwin_rag.py lines 80-154 *)

\* a chunk of the JSON file: fields holds the str-or-None values of the
\* keys id, uid, title, content and text that are present, metadata the
\* value of the key metadata (kind "none" also when the key is absent)
Chunk(fields, metadata) == [fields |-> fields, metadata |-> metadata]

\* title[:8]; every title of the model is at most eight characters long
Slice8(s) == s

\* dict.update({"title": title})
UpdateTitle(m, title) ==
    [k \in DOMAIN m \cup {"title"} |-> IF k = "title" THEN title ELSE m[k]]

\* lines 133-139: the tuple appended to vectors for one chunk; it raises
\* when neither id nor uid is usable and the title is None
ChunkVector(c) ==
    LET f       == c.fields
        title   == DictGetDefault(f, "title", Some(<<>>))
        idOrUid == OrStr(DictGet(f, "id"), DictGet(f, "uid"))
        content == OrStr(DictGet(f, "content"),
                         OrStr(DictGet(f, "text"), Some(<<>>)))
        meta    == IF c.metadata.kind = "dict" THEN c.metadata.m ELSE EmptyDict
    IN  IF ~StrTruthy(idOrUid) /\ title = None
        THEN [exc |-> TRUE, val |-> <<>>]
        ELSE [exc |-> FALSE,
              val |-> [id   |-> IF StrTruthy(idOrUid)
                                THEN Format(idOrUid)
                                ELSE Slice8(TheVal(title)),
                       data |-> IF StrTruthy(title)
                                THEN TheVal(title) \o <<": ">> \o TheVal(content)
                                ELSE TheVal(content),
                       metadata |-> UpdateTitle(meta, title)]]

\* lines 131-139
BuildVectors(chunks) ==
    IF \E i \in 1..Len(chunks) : ChunkVector(chunks[i]).exc
    THEN [exc |-> TRUE, val |-> <<>>]
    ELSE [exc |-> FALSE,
          val |-> [i \in 1..Len(chunks) |-> ChunkVector(chunks[i]).val]]

\* the JSON file: absent, unreadable, or a document whose chunk list sits
\* under the key named by key ("none": under neither key)
FileMissing == [exists |-> FALSE, readable |-> FALSE, key |-> "none", chunks |-> <<>>]

FileUnreadable == [exists |-> TRUE, readable |-> FALSE, key |-> "none", chunks |-> <<>>]

FileWith(key, chunks) ==
    [exists |-> TRUE, readable |-> TRUE, key |-> key, chunks |-> chunks]

\* line 126
FileChunks(file) ==
    IF file.key \in {"content_chunks", "chunks"} THEN file.chunks ELSE <<>>

\* lines 109-115 without the guard: the index is taken for empty
CurrentCountIgnored(info) == 0

\* lines 109-113: info is what index.info() does: it raises, or returns an
\* object whose vector count is a number or None
CurrentCount(info) ==
    IF info.ok /\ info.count # None THEN TheVal(info.count) ELSE 0

TheIndex == Some("index")

\* index.upsert on a store that keeps what it is given: an id given again
\* replaces the entry
RECURSIVE Upsert(_, _)
Upsert(stored, vectors) ==
    IF vectors = <<>> THEN stored
    ELSE LET v == Head(vectors) IN
         Upsert(Append(SelectSeq(stored, LAMBDA e : e.id # v.id), v),
                Tail(vectors))

\* setup_vector_database(); sys holds the installation (indexCls: the
\* upstash package was imported, creds: url and token are set) and what the
\* collaborators do (ctorOk, info, file, upsertOk); keeps tells whether the
\* store keeps what is upserted
setup_vector_database(sys, stored, keeps) ==
    LET fail  == [ret |-> None, raised |-> FALSE, calls |-> <<>>,
                  stored |-> stored, upserted |-> <<>>]
        ok(calls, st, up) ==
            [ret |-> TheIndex, raised |-> FALSE, calls |-> calls,
             stored |-> st, upserted |-> up]
    IN  IF ~sys.indexCls \/ ~sys.creds THEN fail
        ELSE IF ~sys.ctorOk THEN [fail EXCEPT !.calls = <<"Index">>]
        ELSE IF CurrentCount(sys.info) # 0
        THEN ok(<<"Index", "info">>, stored, <<>>)
        ELSE IF ~sys.file.exists THEN ok(<<"Index", "info">>, stored, <<>>)
        ELSE IF ~sys.file.readable THEN ok(<<"Index", "info">>, stored, <<>>)
        ELSE IF FileChunks(sys.file) = <<>>
        THEN ok(<<"Index", "info">>, stored, <<>>)
        ELSE LET b == BuildVectors(FileChunks(sys.file)) IN
             IF b.exc THEN [fail EXCEPT !.calls = <<"Index", "info">>]
             ELSE IF sys.upsertOk
                  THEN ok(<<"Index", "info", "upsert">>,
                          IF keeps THEN Upsert(stored, b.val) ELSE stored,
                          <<b.val>>)
                  ELSE ok(<<"Index", "info", "upsert">>, stored, <<b.val>>)

\* setup_groq_client(), lines 64-78; sys tells whether the groq package was
\* imported (groqCls), whether GROQ_API_KEY is set (key) and whether the
\* constructor returns (groqOk)
setup_groq_client(sys) ==
    IF ~sys.groqCls THEN None
    ELSE IF ~sys.key THEN None
    ELSE IF sys.groqOk THEN Some("groq") ELSE None

\* setup_groq_client of the second program text, lines 321-333
setup_groq_client_2(sys) ==
    IF ~sys.key THEN None
    ELSE IF sys.groqOk THEN Some("groq") ELSE None

\* tags defaults to the empty list, held by its printed form
EmptyList == Some(<<"[]">>)

\* lines 370-383: the tuple appended for one chunk; a missing key raises,
\* and so does a metadata value without get.  The id is held by its
\* printed form, as the store holds it.
ChunkVector_2(c) ==
    LET f    == c.fields
        meta == IF c.metadata.kind = "dict" THEN c.metadata.m ELSE EmptyDict
    IN  IF {"title", "content", "id", "type"} \subseteq DOMAIN f
           /\ c.metadata.kind # "junk"
        THEN [exc |-> FALSE,
              val |-> [id   |-> Format(f.id),
                       data |-> Format(f.title) \o <<": ">> \o Format(f.content),
                       metadata |->
                           [title    |-> f.title,
                            type     |-> f.type,
                            content  |-> f.content,
                            category |-> DictGetDefault(meta, "category", Some(<<>>)),
                            tags     |-> DictGetDefault(meta, "tags", EmptyList)]]]
        ELSE [exc |-> TRUE, val |-> <<>>]

\* lines 369-383
BuildVectors_2(chunks) ==
    IF \E i \in 1..Len(chunks) : ChunkVector_2(chunks[i]).exc
    THEN [exc |-> TRUE, val |-> <<>>]
    ELSE [exc |-> FALSE,
          val |-> [i \in 1..Len(chunks) |-> ChunkVector_2(chunks[i]).val]]

\* lines 344-349: getattr(info, 'vector_count', 0), or 0 when info() raises
CurrentCount_2(info) == IF info.ok THEN info.count ELSE Some(0)

\* setup_vector_database of the second program text, lines 335-393; sys
\* tells what Index.from_env (ctorOk), index.info (info), the JSON file
\* (file) and index.upsert (upsertOk) do
setup_vector_database_2(sys, stored, keeps) ==
    LET fail == [ret |-> None, stored |-> stored]
    IN  IF ~sys.ctorOk THEN fail
        ELSE IF CurrentCount_2(sys.info) # Some(0)
        THEN [ret |-> TheIndex, stored |-> stored]
        ELSE IF ~sys.file.exists \/ ~sys.file.readable THEN fail
        ELSE IF sys.file.key # "content_chunks" \/ sys.file.chunks = <<>> THEN fail
        ELSE LET b == BuildVectors_2(sys.file.chunks) IN
             IF b.exc \/ ~sys.upsertOk THEN fail
             ELSE [ret |-> TheIndex,
                   stored |-> IF keeps THEN Upsert(stored, b.val) ELSE stored]

----------------------------------------------------------------------------
(* The inputs and the collaborators' behaviours the model draws from *)

\* longest hit list a response of the test double holds
MaxHits == 2

Questions == {<<>>, <<" ">>, <<"What are your skills?">>}

Handles == {None, TheIndex}

Clients == {None, Some("groq")}

HitSamples ==
    { Hit(Some(1), MetaDict([title |-> Some(<<"B">>), content |-> Some(<<"x">>)])),
      Hit(Some(0), MetaDict([content |-> Some(<<"y">>)])),
      Hit(Some(1), MetaDict([title |-> Some(<<"A">>)])),
      Hit(Some(1), MetaDict([title |-> Some(<<"A">>), content |-> Some(<<" ">>)])),
      Hit(None, MetaDict(EmptyDict)),
      Hit(Some(1), MetaDict([title |-> None, text |-> Some(<<>>)])),
      Hit(Some(1), MetaDict([text |-> Some(<<"y">>), section |-> Some(<<"S">>)])),
      Hit(Some(1), MetaJunk),
      JunkHit }

HitLists == UNION {[1..n -> HitSamples] : n \in 0..MaxHits}

\* what a test double in the place of the index may answer to index.query
MockOutcomes ==
    {QueryRaises, Response("none", <<>>), Response("noniter", <<>>)}
    \cup {Response(s, hl) : s \in GoodShapes, hl \in HitLists}

\* the hits of a store that returns the metadata it was given: the SDK's
\* result objects for the first top_k entries
StoreHits(stored, top_k) ==
    [i \in 1..(IF Len(stored) < top_k THEN Len(stored) ELSE top_k) |->
        Hit(Some(1), MetaDict(stored[i].metadata))]

StoreOutcomes(stored, top_k) ==
    {QueryRaises, Response("objects", StoreHits(stored, top_k))}

Completions ==
    { CreateRaises(<<"Request timed out.">>),
      CreateRaises(<<"Rate limit reached">>),
      CompletionObject(<<Some(<<" ", "I know Python.", "\n">>)>>),
      CompletionObject(<<None>>),
      CompletionObject(<<>>),
      CompletionDict(Some(<<Some(<<"I know Go.", " ">>)>>)),
      CompletionDict(None),
      CompletionOther(<<"\n", "<raw>">>) }

Prompts == {<<>>, <<"Say hi">>}

ChunkC1 ==
    Chunk([id |-> Some(<<"c1">>), title |-> Some(<<"Skills">>),
           content |-> Some(<<"Python, Go">>)], MetaNone)

ChunkC2 ==
    Chunk([uid |-> Some(<<"c2">>), title |-> Some(<<"Goals">>),
           text |-> Some(<<"Aviation">>)],
          MetaDict([category |-> Some(<<"career">>)]))

ChunkBad == Chunk([title |-> None, content |-> Some(<<"z">>)], MetaJunk)

ChunkTyped ==
    Chunk([id |-> Some(<<"c3">>), title |-> Some(<<"Skills">>),
           content |-> Some(<<"Python, Go">>), type |-> Some(<<"skills">>)],
          MetaDict([category |-> Some(<<"technical">>)]))

Files ==
    { FileMissing, FileUnreadable,
      FileWith("content_chunks", <<ChunkC1>>),
      FileWith("chunks", <<ChunkC2>>),
      FileWith("content_chunks", <<>>),
      FileWith("none", <<ChunkC1>>),
      FileWith("chunks", <<ChunkC1, ChunkBad>>) }

\* the files of a session: also one whose chunks carry the key type
ReplFiles == Files \cup {FileWith("content_chunks", <<ChunkTyped>>)}

----------------------------------------------------------------------------
(* State *)

VARIABLES
    backend,              \* what stands behind the index handle: "store" keeps
                          \* what is upserted and returns it, "mock" is a test
                          \* double answering anything
    SentenceTransformer,  \* FALSE when the import failed (the name is None)
    embedding_model,      \* the global _embedding_model
    stored,               \* the entries the store holds
    pc,                   \* "idle", or "done" when an operation has returned
    op,                   \* the operation that ran
    arg,                  \* its arguments
    env,                  \* what its collaborators did
    out,                  \* what it returned and what it called
    threads,              \* the threads inside get_embedding_model (SpecEmbed)
    repl                  \* the interactive session (SpecRepl)

vars == <<backend, SentenceTransformer, embedding_model, stored, pc, op, arg, env, out,
          threads, repl>>

Init ==
    /\ backend \in {"store", "mock"}
    /\ SentenceTransformer \in BOOLEAN
    /\ embedding_model = None
    /\ stored = <<>>
    /\ pc = "idle"
    /\ op = "none"
    /\ arg = <<>>
    /\ env = <<>>
    /\ out = <<>>
    /\ threads = <<>>
    /\ repl = <<>>

LoadFails == [ok |-> FALSE, width |-> 0]

\* the constructor's outcomes that matter: it runs only when no model is held
LoadChoices ==
    IF embedding_model = None /\ SentenceTransformer THEN LoadOutcomes ELSE {LoadFails}

\* index.query's outcomes; reached tells whether the call is made at all
QueryChoices(reached, top_k) ==
    IF ~reached THEN {QueryRaises}
    ELSE IF backend = "store" THEN StoreOutcomes(stored, top_k)
    ELSE MockOutcomes

CompletionChoices(reached) ==
    IF reached THEN Completions ELSE {CreateRaises(<<>>)}

Finish(name, a, e, o) ==
    /\ pc' = "done"
    /\ op' = name
    /\ arg' = a
    /\ env' = e
    /\ out' = o
    /\ UNCHANGED <<threads, repl>>

GetEmbeddingModel ==
    /\ pc = "idle"
    /\ \E load \in LoadChoices :
         LET o == get_embedding_model(embedding_model, SentenceTransformer, load) IN
         /\ Finish("get_embedding_model", <<>>, [load |-> load], o)
         /\ embedding_model' = o.model
    /\ UNCHANGED <<backend, SentenceTransformer, stored>>

EmbedText ==
    /\ pc = "idle"
    /\ \E text \in Questions, load \in LoadChoices, encOk \in BOOLEAN :
         LET o == embed_text(embedding_model, SentenceTransformer, load, encOk, text) IN
         /\ Finish("embed_text", [text |-> text],
                   [load |-> load, encOk |-> encOk], o)
         /\ embedding_model' = o.model
    /\ UNCHANGED <<backend, SentenceTransformer, stored>>

CreateEmbedding ==
    /\ pc = "idle"
    /\ \E text \in Questions, w \in Widths :
         Finish("create_embedding", [text |-> text], [width |-> w],
                [ret |-> create_embedding([width |-> w], text)])
    /\ UNCHANGED <<backend, SentenceTransformer, embedding_model, stored>>

QueryVectors ==
    /\ pc = "idle"
    /\ \E index \in Handles, text \in Questions, load \in LoadChoices,
          encOk \in BOOLEAN :
         LET e == embed_text(embedding_model, SentenceTransformer, load, encOk, text)
         IN  \E res \in QueryChoices(index # None /\ e.ret # None, TopKDefault) :
               LET ev == [cls |-> SentenceTransformer, load |-> load,
                          encOk |-> encOk, res |-> res]
                   o  == query_vectors(index, text, TopKDefault, embedding_model, ev)
               IN  /\ Finish("query_vectors", [index |-> index, text |-> text], ev, o)
                   /\ embedding_model' = o.model
    /\ UNCHANGED <<backend, SentenceTransformer, stored>>

Generate ==
    /\ pc = "idle"
    /\ \E client \in Clients, prompt \in Prompts :
         \E completion \in CompletionChoices(client # None) :
           Finish("generate_response_with_groq",
                  [client |-> client, prompt |-> prompt],
                  [completion |-> completion],
                  generate_response_with_groq(client, prompt, completion))
    /\ UNCHANGED <<backend, SentenceTransformer, embedding_model, stored>>

RagQuery ==
    /\ pc = "idle"
    /\ \E index \in Handles, client \in Clients, question \in Questions,
          load \in LoadChoices, encOk \in BOOLEAN :
         LET e == embed_text(embedding_model, SentenceTransformer, load, encOk,
                             question)
         IN  \E res \in QueryChoices(question # <<>> /\ index # None /\ e.ret # None,
                                     TopKDefault) :
               LET ev0 == [cls |-> SentenceTransformer, load |-> load,
                           encOk |-> encOk, res |-> res]
                   q   == query_vectors(index, question, TopKDefault,
                                        embedding_model, ev0)
               IN  \E completion \in CompletionChoices(question # <<>>
                                         /\ q.ret # <<>> /\ client # None) :
                     LET ev == [cls |-> SentenceTransformer, load |-> load,
                                encOk |-> encOk, res |-> res,
                                completion |-> completion]
                         o  == rag_query(index, client, question, embedding_model, ev)
                     IN  /\ Finish("rag_query",
                                   [index |-> index, client |-> client,
                                    question |-> question], ev, o)
                         /\ embedding_model' = o.model
    /\ UNCHANGED <<backend, SentenceTransformer, stored>>

RagQuery2 ==
    /\ pc = "idle"
    /\ \E index \in Handles, client \in Clients, question \in Questions :
         \E res \in QueryChoices(index # None, TopKDefault) :
           LET reach == rag_query_2(index, client, question,
                                    [res |-> res, completion |-> CreateRaises(<<>>)])
           IN  \E completion \in CompletionChoices("create" \in
                                    {reach.calls[i] : i \in 1..Len(reach.calls)}) :
                 LET ev == [res |-> res, completion |-> completion] IN
                 Finish("rag_query_2",
                        [index |-> index, client |-> client, question |-> question],
                        ev, rag_query_2(index, client, question, ev))
    /\ UNCHANGED <<backend, SentenceTransformer, embedding_model, stored>>

SetupVectorDatabase ==
    /\ pc = "idle"
    /\ \E indexCls \in BOOLEAN, creds \in BOOLEAN, ctorOk \in BOOLEAN,
          infoOk \in BOOLEAN, file \in Files, upsertOk \in BOOLEAN :
         \E count \in (IF backend = "store"
                       THEN {Some(Len(stored))}
                       ELSE {None, Some(0), Some(1)}) :
           LET sys == [indexCls |-> indexCls, creds |-> creds, ctorOk |-> ctorOk,
                       info |-> [ok |-> infoOk, count |-> count],
                       file |-> file, upsertOk |-> upsertOk]
               o   == setup_vector_database(sys, stored, backend = "store")
           IN  /\ Finish("setup_vector_database", <<>>, sys, o)
               /\ stored' = o.stored
    /\ UNCHANGED <<backend, SentenceTransformer, embedding_model>>

\* the caller takes the result; the globals and the store stay
Return ==
    /\ pc = "done"
    /\ pc' = "idle"
    /\ op' = "none"
    /\ arg' = <<>>
    /\ env' = <<>>
    /\ out' = <<>>
    /\ UNCHANGED <<backend, SentenceTransformer, embedding_model, stored, threads, repl>>

Next ==
    \/ GetEmbeddingModel
    \/ EmbedText
    \/ CreateEmbedding
    \/ QueryVectors
    \/ Generate
    \/ RagQuery
    \/ RagQuery2
    \/ SetupVectorDatabase
    \/ Return

Spec == Init /\ [][Next]_vars

----------------------------------------------------------------------------
(* get_embedding_model step by step, digitaltwin_rag.py lines 49-62, called *)
(* by several threads (directly, or from embed_text line 158).  A thread   *)
(* may be preempted between any two steps; the function takes no lock.     *)

\* threads calling get_embedding_model
NThreads == 2

\* calls each thread makes
MaxCalls == 2

Threads == 1..NThreads

InitEmbed ==
    /\ backend = "mock"
    /\ SentenceTransformer \in BOOLEAN
    /\ embedding_model = None
    /\ stored = <<>>
    /\ pc = "idle"
    /\ op = "none"
    /\ arg = <<>>
    /\ env = <<>>
    /\ out = <<>>
    /\ repl = <<>>
    /\ threads = [pc       |-> [t \in Threads |-> "idle"],
                  local    |-> [t \in Threads |-> None],
                  ret      |-> [t \in Threads |-> None],
                  ctor     |-> [t \in Threads |-> FALSE],
                  after_failure |-> [t \in Threads |-> FALSE],
                  calls    |-> [t \in Threads |-> 0],
                  made     |-> 0,
                  failed   |-> FALSE,
                  returned |-> {}]

EmbedUnchanged ==
    UNCHANGED <<backend, SentenceTransformer, stored, pc, op, arg, env, out, repl>>

\* the call begins; after_failure notes whether an earlier call has already
\* reported that the model could not be loaded
ThreadCall(t) ==
    /\ threads.pc[t] = "idle"
    /\ threads.calls[t] < MaxCalls
    /\ threads' = [threads EXCEPT !.pc[t] = "check",
                                  !.local[t] = None,
                                  !.ret[t] = None,
                                  !.ctor[t] = FALSE,
                                  !.after_failure[t] = threads.failed]
    /\ UNCHANGED embedding_model
    /\ EmbedUnchanged

\* lines 52-55
ThreadCheck(t) ==
    /\ threads.pc[t] = "check"
    /\ threads' = [threads EXCEPT !.pc[t] =
                       IF embedding_model # None THEN "return"
                       ELSE IF ~SentenceTransformer THEN "done"
                       ELSE "construct"]
    /\ UNCHANGED embedding_model
    /\ EmbedUnchanged

\* line 57, right-hand side, and lines 59-61: the constructor returns a new
\* model object or raises
ThreadConstruct(t) ==
    /\ threads.pc[t] = "construct"
    /\ \E load \in LoadOutcomes :
         threads' =
             IF load.ok
             THEN [threads EXCEPT !.pc[t] = "assign",
                                  !.ctor[t] = TRUE,
                                  !.made = threads.made + 1,
                                  !.local[t] = Some([width |-> load.width,
                                                     id |-> threads.made + 1])]
             ELSE [threads EXCEPT !.pc[t] = "done", !.ctor[t] = TRUE]
    /\ UNCHANGED embedding_model
    /\ EmbedUnchanged

\* line 57, the assignment to the global
ThreadAssign(t) ==
    /\ threads.pc[t] = "assign"
    /\ embedding_model' = threads.local[t]
    /\ threads' = [threads EXCEPT !.pc[t] = "return"]
    /\ EmbedUnchanged

\* line 62: the global is read again
ThreadReturn(t) ==
    /\ threads.pc[t] = "return"
    /\ threads' = [threads EXCEPT !.pc[t] = "done", !.ret[t] = embedding_model]
    /\ UNCHANGED embedding_model
    /\ EmbedUnchanged

\* the caller has the result
ThreadDone(t) ==
    /\ threads.pc[t] = "done"
    /\ threads' = [threads EXCEPT !.pc[t] = "idle",
                                  !.calls[t] = threads.calls[t] + 1,
                                  !.failed = threads.failed \/ threads.ret[t] = None,
                                  !.returned = threads.returned \cup threads.ret[t]]
    /\ UNCHANGED embedding_model
    /\ EmbedUnchanged

NextEmbed ==
    \E t \in Threads :
        \/ ThreadCall(t)
        \/ ThreadCheck(t)
        \/ ThreadConstruct(t)
        \/ ThreadAssign(t)
        \/ ThreadReturn(t)
        \/ ThreadDone(t)

SpecEmbed == InitEmbed /\ [][NextEmbed]_vars

----------------------------------------------------------------------------
(* Running digitaltwin_rag.py as a script.  Line 298-299 call the first    *)
(* main; when it returns, the interpreter goes on with the rest of the     *)
(* file, lines 300-517, which rebind the names, and lines 518-519 call the *)
(* second main.                                                            *)

\* lines a session reads at most
MaxLines == 3

\* str.lower() on the fragments the model types
LowerFragment(f) ==
    CASE f = "EXIT" -> "exit"
      [] f = "Quit" -> "quit"
      [] f = "What are your skills?" -> "what are your skills?"
      [] OTHER -> f

Lower(s) == [i \in 1..Len(s) |-> LowerFragment(s[i])]

ExitWords == {<<"exit">>, <<"quit">>}

\* what input() does: it returns a line, or raises KeyboardInterrupt or
\* EOFError
Typed ==
    {[kind |-> "line", line |-> l] :
        l \in {<<>>, <<" ">>, <<"exit">>, <<"EXIT">>, <<"Quit">>,
               <<"What are your skills?">>}}
    \cup {[kind |-> "interrupt", line |-> <<>>], [kind |-> "eof", line |-> <<>>]}

\* the user entered exit or quit, in any letter case
IsExitLine(in) == in.kind = "line" /\ Lower(in.line) \in ExitWords

InitRepl ==
    /\ backend \in {"store", "mock"}
    /\ SentenceTransformer \in BOOLEAN
    /\ embedding_model = None
    /\ stored = <<>>
    /\ pc = "idle"
    /\ op = "none"
    /\ arg = <<>>
    /\ env = <<>>
    /\ out = <<>>
    /\ threads = <<>>
    /\ repl = [phase |-> "start", groq |-> None, index |-> None, lines |-> 0,
               exit_entered |-> FALSE, read_after_exit |-> FALSE,
               forwarded_after_exit |-> FALSE,
               forwarded |-> None, answer |-> None]

ReplUnchanged == UNCHANGED <<backend, SentenceTransformer, pc, op, arg, env, out, threads>>

\* input() returned or raised: the history of the session
Read(in) ==
    [repl EXCEPT !.lines = repl.lines + 1,
                 !.exit_entered = repl.exit_entered \/ IsExitLine(in),
                 !.read_after_exit = repl.read_after_exit
                                     \/ (repl.exit_entered /\ in.kind = "line"),
                 !.forwarded = None,
                 !.answer = None]

\* a question went to rag_query, which returned answer
Forward(r, question, answer) ==
    [r EXCEPT !.forwarded = Some(question),
              !.answer = Some(answer),
              !.forwarded_after_exit = r.forwarded_after_exit \/ repl.exit_entered]

\* the first main up to the loop, lines 272-283
Main1Init ==
    /\ repl.phase = "start"
    /\ \E groqCls \in BOOLEAN, key \in BOOLEAN, groqOk \in BOOLEAN,
          indexCls \in BOOLEAN, creds \in BOOLEAN, ctorOk \in BOOLEAN,
          infoOk \in BOOLEAN, file \in ReplFiles, upsertOk \in BOOLEAN,
          load \in LoadChoices :
         \E count \in (IF backend = "store"
                       THEN {Some(Len(stored))}
                       ELSE {None, Some(0), Some(1)}) :
           LET groq_client == setup_groq_client([groqCls |-> groqCls, key |-> key,
                                                 groqOk |-> groqOk])
               s == setup_vector_database(
                        [indexCls |-> indexCls, creds |-> creds, ctorOk |-> ctorOk,
                         info |-> [ok |-> infoOk, count |-> count],
                         file |-> file, upsertOk |-> upsertOk],
                        stored, backend = "store")
               m == get_embedding_model(embedding_model, SentenceTransformer, load)
           IN  /\ stored' = s.stored
               /\ embedding_model' = m.model
               /\ repl' = [repl EXCEPT
                              !.groq = groq_client,
                              !.index = s.ret,
                              !.phase = IF groq_client = None \/ s.ret = None
                                           \/ m.ret = None
                                        THEN "exited" ELSE "loop1"]
    /\ ReplUnchanged

\* one turn of the first loop, lines 286-297
Loop1 ==
    /\ repl.phase = "loop1"
    /\ repl.lines < MaxLines
    /\ \E in \in Typed :
         LET q == Strip(in.line) IN
         IF in.kind = "eof"
         THEN /\ repl' = [Read(in) EXCEPT !.phase = "exited"]
              /\ UNCHANGED <<embedding_model, stored>>
         ELSE IF in.kind = "interrupt" \/ (q # <<>> /\ Lower(q) \in ExitWords)
         THEN /\ repl' = [Read(in) EXCEPT !.phase = "between"]
              /\ UNCHANGED <<embedding_model, stored>>
         ELSE IF q = <<>>
         THEN /\ repl' = Read(in)
              /\ UNCHANGED <<embedding_model, stored>>
         ELSE \E load \in LoadChoices, encOk \in BOOLEAN :
                LET e == embed_text(embedding_model, SentenceTransformer, load,
                                    encOk, q)
                IN  \E res \in QueryChoices(e.ret # None, TopKDefault) :
                      LET ev0 == [cls |-> SentenceTransformer, load |-> load,
                                  encOk |-> encOk, res |-> res]
                          h   == query_vectors(repl.index, q, TopKDefault,
                                               embedding_model, ev0)
                      IN  \E completion \in CompletionChoices(h.ret # <<>>) :
                            LET ev == [cls |-> SentenceTransformer, load |-> load,
                                       encOk |-> encOk, res |-> res,
                                       completion |-> completion]
                                o  == rag_query(repl.index, repl.groq, q,
                                                embedding_model, ev)
                            IN  /\ repl' = [Forward(Read(in), q, o.ret) EXCEPT
                                              !.phase = IF o.raised THEN "exited"
                                                        ELSE "loop1"]
                                /\ embedding_model' = o.model
                                /\ UNCHANGED stored
    /\ ReplUnchanged

\* the rest of the file after the first main has returned, and the second
\* main up to its loop, lines 300-503.  The imports of lines 309-310
\* succeed and the key is set, the first session having had both.
Main2Init ==
    /\ repl.phase = "between"
    /\ \E groqOk \in BOOLEAN, ctorOk \in BOOLEAN, infoOk \in BOOLEAN,
          file \in ReplFiles, upsertOk \in BOOLEAN :
         \E count \in (IF backend = "store"
                       THEN {Some(Len(stored))}
                       ELSE {None, Some(0), Some(1)}) :
           LET groq_client == setup_groq_client_2([key |-> TRUE, groqOk |-> groqOk])
               s == setup_vector_database_2(
                        [ctorOk |-> ctorOk,
                         info |-> [ok |-> infoOk, count |-> count],
                         file |-> file, upsertOk |-> upsertOk],
                        stored, backend = "store")
           IN  IF groq_client = None
               THEN /\ repl' = [repl EXCEPT !.phase = "exited", !.groq = None,
                                            !.index = None, !.lines = 0]
                    /\ UNCHANGED stored
               ELSE /\ stored' = s.stored
                    /\ repl' = [repl EXCEPT !.groq = groq_client,
                                            !.index = s.ret,
                                            !.lines = 0,
                                            !.phase = IF s.ret = None THEN "exited"
                                                      ELSE "loop2"]
    /\ UNCHANGED embedding_model
    /\ ReplUnchanged

\* one turn of the second loop, lines 505-513
Loop2 ==
    /\ repl.phase = "loop2"
    /\ repl.lines < MaxLines
    /\ \E in \in Typed :
         IF in.kind # "line" \/ Lower(in.line) \in ExitWords
         THEN repl' = [Read(in) EXCEPT !.phase = "exited"]
         ELSE IF Strip(in.line) = <<>>
         THEN repl' = Read(in)
         ELSE \E res \in QueryChoices(TRUE, TopKDefault) :
                LET reach == rag_query_2(repl.index, repl.groq, in.line,
                                 [res |-> res, completion |-> CreateRaises(<<>>)])
                IN  \E completion \in CompletionChoices("create" \in
                                    {reach.calls[i] : i \in 1..Len(reach.calls)}) :
                      LET o == rag_query_2(repl.index, repl.groq, in.line,
                                   [res |-> res, completion |-> completion])
                      IN  repl' = [Forward(Read(in), in.line, o.ret) EXCEPT
                                      !.phase = IF o.raised THEN "exited"
                                                ELSE "loop2"]
    /\ UNCHANGED <<embedding_model, stored>>
    /\ ReplUnchanged

NextRepl ==
    \/ Main1Init
    \/ Loop1
    \/ Main2Init
    \/ Loop2

SpecRepl == InitRepl /\ [][NextRepl]_vars

----------------------------------------------------------------------------
(* Properties *)

Called(fn) == \E i \in 1..Len(out.calls) : out.calls[i] = fn

HasErrorMarker(str) == str # <<>> /\ Head(str) = ErrorMarker

\* C1: whenever embed_text returns a vector it has exactly 1536 entries, and
\* so has the vector query_vectors passes to index.query.
C1_EmbedLengthIs1536 ==
    /\ (op = "embed_text" /\ out.ret # None)
           => VecLen(TheVal(out.ret)) = EmbedDim
    /\ (op \in {"query_vectors", "rag_query"} /\ out.query_args # None)
           => VecLen(TheVal(out.query_args).vector) = EmbedDim

\* C2: the same hits delivered under `results`, under `matches`, as a bare
\* list of mappings or as a list of objects make query_vectors return the
\* same sequence.
C2_ShapeIndependent ==
    (op = "query_vectors" /\ Called("query") /\ ~env.res.exc
        /\ env.res.shape \in GoodShapes)
    => \A shape \in GoodShapes :
         QueryTry(QueryAndNormalize([env.res EXCEPT !.shape = shape])).ret
             = out.ret

\* the line the claim C3 gives a hit
ClaimedLine(h) ==
    IF StrTruthy(DictGet(h.metadata, "title"))
    THEN TheVal(DictGet(h.metadata, "title")) \o <<": ">> \o ResolvedText(h)
    ELSE ResolvedText(h)

RECURSIVE ClaimedContexts(_)
ClaimedContexts(hits) ==
    IF hits = <<>> THEN <<>>
    ELSE IF Strip(ResolvedText(Head(hits))) = <<>>
         THEN ClaimedContexts(Tail(hits))
         ELSE <<ClaimedLine(Head(hits))>> \o ClaimedContexts(Tail(hits))

\* C3: the context block of rag_query holds no line for a hit whose resolved
\* text is empty after trimming and one line for every other hit, in order,
\* "{title}: {text}" with a title and the bare text without.
C3_ContextDropsEmptyHits ==
    (op = "rag_query" /\ out.hits # <<>> /\ ~out.raised)
    => out.contexts = ClaimedContexts(out.hits)

\* C4: for a non-empty question, when retrieval yields zero hits rag_query
\* returns the "couldn't find relevant information" answer and
\* client.chat.completions.create is not called.
C4_NoHitsNoGeneration ==
    (op = "rag_query" /\ arg.question # <<>> /\ out.hits = <<>>)
    => /\ ~out.raised
       /\ out.ret = NotFound
       /\ ~Called("create")
       /\ out.prompt = None

\* C4 happens: the store was queried and answered without hits while a
\* client was at hand
C4_Witness ==
    /\ op = "rag_query"
    /\ arg.question # <<>>
    /\ arg.client # None
    /\ Called("query")
    /\ ~env.res.exc
    /\ out.hits = <<>>
    /\ out.ret = NotFound

\* C5: rag_query with the empty question returns "Please provide a
\* question." and calls neither the embedder, nor index.query, nor the
\* generator; stated of both definitions of rag_query.
C5_EmptyQuestionIsTerminal ==
    (op \in {"rag_query", "rag_query_2"} /\ arg.question = <<>>)
    => /\ out.ret = PleaseProvide
       /\ out.calls = <<>>

\* C6: generate_response_with_groq never raises; with the client missing or
\* the backend call raising it returns a string that opens with the error
\* marker, and rag_query hands that string to its caller.
C6_GeneratorNeverRaises ==
    /\ op = "generate_response_with_groq"
         => /\ ~out.raised
            /\ (arg.client = None \/ env.completion.exc)
                   => HasErrorMarker(out.ret)
    /\ (op = "rag_query" /\ out.contexts # <<>>)
         => /\ ~out.raised
            /\ (arg.client = None \/ env.completion.exc)
                   => HasErrorMarker(out.ret)

\* C6 happens: the backend raised under rag_query and the answer is the
\* marked error string
C6_Witness ==
    /\ op = "rag_query"
    /\ arg.client # None
    /\ Called("create")
    /\ env.completion.exc
    /\ out.ret = ErrorGenerating(env.completion.msg)

SkillsQuestion == <<"What are your skills?">>

\* C7: with the chunk c1 (title Skills, content "Python, Go") ingested by
\* setup_vector_database into a store that returns the metadata it was
\* given, rag_query on "What are your skills?" hands the generator a prompt
\* holding "Skills: Python, Go" and the question.
C7_EndToEndPrompt ==
    (op = "rag_query" /\ backend = "store"
        /\ stored = BuildVectors(<<ChunkC1>>).val
        /\ arg.question = SkillsQuestion /\ arg.client # None
        /\ Called("query") /\ ~env.res.exc)
    => /\ out.prompt # None
       /\ Contains(TheVal(out.prompt), <<"Skills", ": ", "Python, Go">>)
       /\ Contains(TheVal(out.prompt), SkillsQuestion)

\* C8: when retrieval returns hits but the resolved text of every one is
\* empty, rag_query returns a canned "not found" answer and does not call
\* the generator; stated of both definitions of rag_query.
C8_EmptyContextShortCircuits ==
    /\ (op = "rag_query" /\ out.hits # <<>>
          /\ \A i \in 1..Len(out.hits) : Strip(ResolvedText(out.hits[i])) = <<>>)
         => /\ ~Called("create")
            /\ out.ret = NotFound
    /\ (op = "rag_query_2" /\ out.ret = CouldNotExtract) => ~Called("create")

\* the response holds a hit, or a metadata, of an unexpected type
Malformed(res) ==
    \/ res.shape = "noniter"
    \/ \E i \in 1..Len(res.hits) :
         res.hits[i].kind = "junk" \/ res.hits[i].metadata.kind = "junk"

\* C9: query_vectors never raises; with the embedder unavailable, index.query
\* raising or the response malformed it returns the empty sequence.
C9_QueryNeverRaisesEmptyOnError ==
    op = "query_vectors"
    => /\ ~out.raised
       /\ (~Called("query") \/ env.res.exc \/ Malformed(env.res))
              => out.ret = <<>>

\* C10: for an empty or whitespace-only question query_vectors returns the
\* empty sequence without calling model.encode or index.query, and rag_query
\* does not reach the generator.
C10_BlankQuestionFailsFast ==
    /\ (op = "query_vectors" /\ Strip(arg.text) = <<>>)
         => out.ret = <<>> /\ out.calls = <<>>
    /\ (op = "rag_query" /\ Strip(arg.question) = <<>>)
         => out.calls = <<>>


\* C12: one rag_query run calls model.encode, index.query and
\* chat.completions.create at most once each and in that order; a call that
\* fails is not issued again and the failure shows in the answer returned.
C12_NoRetry ==
    op = "rag_query"
    => /\ out.calls \in {<<>>, <<"encode">>, <<"encode", "query">>,
                         <<"encode", "query", "create">>}
       /\ (Called("encode") /\ ~env.encOk)
              => out.calls = <<"encode">> /\ out.ret = NotFound
       /\ (Called("query") /\ env.res.exc)
              => out.calls = <<"encode", "query">> /\ out.ret = NotFound
       /\ (Called("create") /\ env.completion.exc)
              => out.ret = ErrorGenerating(env.completion.msg)

\* C12 happens: index.query raised with a client at hand and the run ended
\* with the not-found answer after that single call
C12_Witness ==
    /\ op = "rag_query"
    /\ arg.client # None
    /\ env.res.exc
    /\ out.calls = <<"encode", "query">>
    /\ out.ret = NotFound

\* the text the claim C14 gives a metadata: content if non-empty, else text
\* if non-empty, else title, else ''
ClaimedText(m) ==
    IF StrTruthy(DictGet(m, "content")) THEN TheVal(DictGet(m, "content"))
    ELSE IF StrTruthy(DictGet(m, "text")) THEN TheVal(DictGet(m, "text"))
    ELSE IF DictGet(m, "title") # None THEN TheVal(DictGet(m, "title"))
    ELSE <<>>

\* C14: the text of every hit query_vectors returns is a string, never None,
\* and it is the content field if non-empty, else the text field if
\* non-empty, else the title field, else the empty string.
C14_TextPriorityAlwaysString ==
    op = "query_vectors"
    => \A i \in 1..Len(out.ret) :
         /\ out.ret[i].text # None
         /\ TheVal(out.ret[i].text) = ClaimedText(out.ret[i].metadata)

\* the content a completion carries in choices[0].message.content: a set
\* holding the str, empty when there is no such str
CompletionContent(completion) ==
    IF completion.kind \in {"object", "dict"} /\ completion.choices # None
       /\ TheVal(completion.choices) # <<>>
    THEN TheVal(completion.choices)[1]
    ELSE None

NumberOf(fn) == Cardinality({i \in 1..Len(out.calls) : out.calls[i] = fn})

\* C17: setup_vector_database does not call index.upsert when index.info
\* reports a vector count above zero, calls it at most once, and returns the
\* connected index, without raising, when the upsert fails or the JSON file
\* cannot be read.
C17_IngestionGuarded ==
    op = "setup_vector_database"
    => /\ ~out.raised
       /\ NumberOf("upsert") <= 1
       /\ (env.info.ok /\ env.info.count # None /\ TheVal(env.info.count) > 0)
              => ~Called("upsert")
       /\ (Called("upsert") /\ ~env.upsertOk) => out.ret = TheIndex
       /\ (Called("info") /\ CurrentCount(env.info) = 0 /\ env.file.exists
             /\ ~env.file.readable) => out.ret = TheIndex

\* C17 happens: the index reported a vector, a readable file with a chunk
\* was there, and the handle came back without an upsert
C17_Witness ==
    /\ op = "setup_vector_database"
    /\ env.info.ok
    /\ env.info.count = Some(1)
    /\ env.file = FileWith("content_chunks", <<ChunkC1>>)
    /\ env.upsertOk
    /\ out.ret = TheIndex
    /\ out.calls = <<"Index", "info">>


\* C11: once a call of get_embedding_model has reported that the model could
\* not be loaded, no later call invokes the constructor and every later call
\* reports failure.
C11_LoadFailureIsSticky ==
    \A t \in Threads :
        threads.after_failure[t]
        => /\ ~threads.ctor[t]
           /\ threads.pc[t] = "done" => threads.ret[t] = None

\* C13: over all calls of get_embedding_model, also from several threads,
\* the constructor completes at most once and every call that returns a
\* model returns the same instance.
C13_SingleModelInstance ==
    /\ threads.made <= 1
    /\ Cardinality(threads.returned) <= 1


\* C16: in the session started by running digitaltwin_rag.py, once exit or
\* quit has been entered, in any letter case, no further line is read and no
\* further question goes to rag_query.
C16_ExitEndsSession ==
    /\ ~repl.read_after_exit
    /\ ~repl.forwarded_after_exit

====
